---- MODULE Spec2Model ----
(***************************************************************************)
(* Flashcard bucket scheduler (PS1/src/algorithm.ts): toBucketSets,        *)
(* getBucketRange, practice, update and computeProgress, over an explicit  *)
(* object store so that object identity (Map, Set and Array instances),    *)
(* aliasing and in-place mutation are part of the model.                   *)
(*                                                                         *)
(* The object store `heap` has three areas:                                *)
(*   heap.sets[r]    the members of the Set object r                       *)
(*   heap.maps[r]    the entries of the Map object r, in insertion order,  *)
(*                   each entry [k |-> bucket number, v |-> Set ref]       *)
(*   heap.arrays[r]  the elements of the Array object r (Set refs; 0 is a  *)
(*                   hole / undefined element)                             *)
(* A reference is an index into its area; allocation appends.              *)
(***************************************************************************)
EXTENDS Integers, Sequences, FiniteSets, TLC

\* ------------------------------------------------------------------ bounds
MaxKey == 2
MaxUpdates == 2
MaxQueries == 2
MaxDay == 4

\* ------------------------------------------------------------- vocabulary
Cards == {"c1", "c2"}
NoCard == "none"

Wrong == "Wrong"
Hard == "Hard"
Easy == "Easy"
\* a value outside the AnswerDifficulty enum, passed by an untyped caller
Other == "Other"
NoDifficulty == "none"
ValidDifficulties == {Wrong, Hard, Easy}
Difficulties == ValidDifficulties \cup {Other}

\* `let newBucket: number;` is never assigned when no case matches
Undefined == -2
\* undefined + 1
NaN == -3

VARIABLES heap, pre, buckets, dense, call, nops, updated

vars == <<heap, pre, buckets, dense, call, nops, updated>>

\* ------------------------------------------------------- built-in objects
\* Map.prototype.has
MapHas(m, k) == \E i \in 1..Len(m) : m[i].k = k

\* Map.prototype.get (of a key the map has)
MapGet(m, k) == m[CHOOSE i \in 1..Len(m) : m[i].k = k].v

\* Map.prototype.set: replaces the value of an existing key in place, else
\* appends a new entry at the end of the insertion order
MapSet(m, k, v) ==
    IF MapHas(m, k)
    THEN [i \in 1..Len(m) |-> IF m[i].k = k THEN [k |-> k, v |-> v] ELSE m[i]]
    ELSE Append(m, [k |-> k, v |-> v])

\* new Set<Flashcard>(): a fresh empty Set object
NewSet(h) ==
    [heap |-> [h EXCEPT !.sets = Append(@, {})], ret |-> Len(h.sets) + 1]

\* faulty variant of CopySet: no copy, the input's Set object itself
CopySetAliased(h, r) == [heap |-> h, ret |-> r]

\* faulty variant of CopySet: new Set(), the members are not copied
CopySetEmpty(h, r) == NewSet(h)

\* new Set(cardSet): a fresh Set object with the members of cardSet
CopySet(h, r) ==
    [heap |-> [h EXCEPT !.sets = Append(@, h.sets[r])], ret |-> Len(h.sets) + 1]

\* ----------------------------------------------------------------- update
\* for (const [bucketNum, cardSet] of buckets.entries())
\*     newBuckets.set(bucketNum, new Set(cardSet));
RECURSIVE CopyBuckets(_, _, _, _)
CopyBuckets(h, src, dst, i) ==
    IF i > Len(h.maps[src])
    THEN h
    ELSE LET e == h.maps[src][i]
             c == CopySet(h, e.v)
         IN  CopyBuckets([c.heap EXCEPT !.maps[dst] = MapSet(@, e.k, c.ret)],
                         src, dst, i + 1)

\* the position of the first entry of map m (in insertion order) whose set
\* has the card, 0 if none: the loop breaks at the first hit
FindBucket(h, m, card) ==
    LET hits == {i \in 1..Len(h.maps[m]) : card \in h.sets[h.maps[m][i].v]}
    IN  IF hits = {} THEN 0 ELSE CHOOSE i \in hits : \A j \in hits : i <= j

\* currentBucket + 1 as JavaScript computes it
PlusOne(k) == IF k \in {Undefined, NaN} THEN NaN ELSE k + 1

\* faulty variant of NewBucket: Wrong treated as Hard
NewBucketWrongKeeps(currentBucket, difficulty) ==
    IF difficulty = Other THEN Undefined
    ELSE IF currentBucket = -1 THEN 0
    ELSE IF difficulty = Easy THEN PlusOne(currentBucket)
    ELSE currentBucket

\* faulty variant of NewBucket: Easy starts an unfiled card in bucket 1
NewBucketEasyJumps(currentBucket, difficulty) ==
    IF difficulty = Wrong THEN 0
    ELSE IF difficulty = Hard
         THEN (IF currentBucket = -1 THEN 0 ELSE currentBucket)
    ELSE IF difficulty = Easy
         THEN (IF currentBucket = -1 THEN 1 ELSE PlusOne(currentBucket))
    ELSE Undefined

\* faulty variant of NewBucket: Hard treated as Wrong
NewBucketHardDemotes(currentBucket, difficulty) ==
    IF difficulty = Wrong THEN 0
    ELSE IF difficulty = Hard THEN 0
    ELSE IF difficulty = Easy
         THEN (IF currentBucket = -1 THEN 0 ELSE PlusOne(currentBucket))
    ELSE Undefined

\* the switch on difficulty; no case matches a value outside the enum and
\* newBucket stays unassigned
NewBucket(currentBucket, difficulty) ==
    IF difficulty = Wrong THEN 0
    ELSE IF difficulty = Hard
         THEN (IF currentBucket = -1 THEN 0 ELSE currentBucket)
    ELSE IF difficulty = Easy
         THEN (IF currentBucket = -1 THEN 0 ELSE PlusOne(currentBucket))
    ELSE Undefined

\* faulty variant of update: the card is not deleted from its current bucket
updateKeepsOld(h, bucketsRef, card, difficulty) ==
    LET h0 == [h EXCEPT !.maps = Append(@, <<>>)]
        newBuckets == Len(h0.maps)
        h1 == CopyBuckets(h0, bucketsRef, newBuckets, 1)
        found == FindBucket(h1, newBuckets, card)
        currentBucket == IF found = 0 THEN -1 ELSE h1.maps[newBuckets][found].k
        newBucket == NewBucket(currentBucket, difficulty)
        n == NewSet(h1)
        h3 == IF MapHas(h1.maps[newBuckets], newBucket)
              THEN h1
              ELSE [n.heap EXCEPT !.maps[newBuckets] = MapSet(@, newBucket, n.ret)]
        h4 == [h3 EXCEPT !.sets[MapGet(h3.maps[newBuckets], newBucket)] = @ \cup {card}]
    IN  [heap |-> h4, ret |-> newBuckets, threw |-> FALSE]

\* update(buckets, card, difficulty): the store after the call, the returned
\* Map, and whether the call threw (the function has no throw statement)
update(h, bucketsRef, card, difficulty) ==
    LET h0 == [h EXCEPT !.maps = Append(@, <<>>)]
        newBuckets == Len(h0.maps)
        h1 == CopyBuckets(h0, bucketsRef, newBuckets, 1)
        found == FindBucket(h1, newBuckets, card)
        currentBucket == IF found = 0 THEN -1 ELSE h1.maps[newBuckets][found].k
        h2 == IF found = 0
              THEN h1
              ELSE [h1 EXCEPT !.sets[h1.maps[newBuckets][found].v] = @ \ {card}]
        newBucket == NewBucket(currentBucket, difficulty)
        n == NewSet(h2)
        h3 == IF MapHas(h2.maps[newBuckets], newBucket)
              THEN h2
              ELSE [n.heap EXCEPT !.maps[newBuckets] = MapSet(@, newBucket, n.ret)]
        h4 == [h3 EXCEPT !.sets[MapGet(h3.maps[newBuckets], newBucket)] = @ \cup {card}]
    IN  [heap |-> h4, ret |-> newBuckets, threw |-> FALSE]

\* ----------------------------------------------------------- toBucketSets
\* faulty variant of MathMax: buckets.size
MathMaxIsSize(m) == Len(m)

\* Math.max(...buckets.keys()) of a non-empty map with non-negative keys
MathMax(m) ==
    CHOOSE k \in {m[i].k : i \in 1..Len(m)} : \A i \in 1..Len(m) : m[i].k <= k

\* result[i] = v on a JavaScript array (i counts from 0): a store past the
\* end grows the array, leaving holes
ArrayStore(a, i, v) ==
    IF i < Len(a)
    THEN [a EXCEPT ![i + 1] = v]
    ELSE a \o [j \in 1..(i - Len(a)) |-> 0] \o <<v>>

\* buckets[i]: the element, undefined (0) outside the array
ArrayAt(a, i) == IF i >= 0 /\ i < Len(a) THEN a[i + 1] ELSE 0

\* for (let i = 0; i <= maxBucket; i++) result[i] = new Set<Flashcard>();
RECURSIVE FillEmpty(_, _, _, _)
FillEmpty(h, arr, i, maxBucket) ==
    IF i > maxBucket
    THEN h
    ELSE LET n == NewSet(h)
         IN  FillEmpty([n.heap EXCEPT !.arrays[arr] = ArrayStore(@, i, n.ret)],
                       arr, i + 1, maxBucket)

\* faulty variant of StoreEntries: stores at the entry's position in the
\* insertion order instead of its bucket number
RECURSIVE StoreEntriesByPosition(_, _, _, _)
StoreEntriesByPosition(h, m, arr, i) ==
    IF i > Len(h.maps[m])
    THEN h
    ELSE StoreEntriesByPosition(
             [h EXCEPT !.arrays[arr] = ArrayStore(@, i - 1, h.maps[m][i].v)],
             m, arr, i + 1)

\* for (const [bucketNum, cardSet] of buckets.entries())
\*     result[bucketNum] = cardSet;
RECURSIVE StoreEntries(_, _, _, _)
StoreEntries(h, m, arr, i) ==
    IF i > Len(h.maps[m])
    THEN h
    ELSE StoreEntries(
             [h EXCEPT !.arrays[arr] = ArrayStore(@, h.maps[m][i].k, h.maps[m][i].v)],
             m, arr, i + 1)

\* toBucketSets(buckets): the store after the call and the returned Array
toBucketSets(h, bucketsRef) ==
    LET h0 == [h EXCEPT !.arrays = Append(@, <<>>)]
        result == Len(h0.arrays)
    IN  IF Len(h.maps[bucketsRef]) = 0
        THEN [heap |-> h0, ret |-> result]
        ELSE LET maxBucket == MathMax(h.maps[bucketsRef])
                 h1 == FillEmpty(h0, result, 0, maxBucket)
                 h2 == StoreEntries(h1, bucketsRef, result, 1)
             IN  [heap |-> h2, ret |-> result]

\* --------------------------------------------------------- getBucketRange
\* the undefined result
NoRange == [defined |-> FALSE, minBucket |-> -1, maxBucket |-> -1]

\* faulty variant of ScanRange: maxBucket set only with minBucket
RECURSIVE ScanRangeFirstOnly(_, _, _, _, _)
ScanRangeFirstOnly(h, arr, i, minBucket, maxBucket) ==
    IF i >= Len(h.arrays[arr])
    THEN [minBucket |-> minBucket, maxBucket |-> maxBucket]
    ELSE LET bucket == ArrayAt(h.arrays[arr], i)
         IN  IF bucket # 0 /\ Cardinality(h.sets[bucket]) > 0
             THEN ScanRangeFirstOnly(h, arr, i + 1,
                            IF minBucket = -1 THEN i ELSE minBucket,
                            IF minBucket = -1 THEN i ELSE maxBucket)
             ELSE ScanRangeFirstOnly(h, arr, i + 1, minBucket, maxBucket)

\* the scan from index i with the minBucket/maxBucket found so far
RECURSIVE ScanRange(_, _, _, _, _)
ScanRange(h, arr, i, minBucket, maxBucket) ==
    IF i >= Len(h.arrays[arr])
    THEN [minBucket |-> minBucket, maxBucket |-> maxBucket]
    ELSE LET bucket == ArrayAt(h.arrays[arr], i)
         IN  IF bucket # 0 /\ Cardinality(h.sets[bucket]) > 0
             THEN ScanRange(h, arr, i + 1,
                            IF minBucket = -1 THEN i ELSE minBucket, i)
             ELSE ScanRange(h, arr, i + 1, minBucket, maxBucket)

\* getBucketRange(buckets): undefined, or {minBucket, maxBucket}
getBucketRange(h, arr) ==
    LET r == ScanRange(h, arr, 0, -1, -1)
    IN  IF r.minBucket = -1
        THEN NoRange
        ELSE [defined |-> TRUE, minBucket |-> r.minBucket, maxBucket |-> r.maxBucket]

\* --------------------------------------------------------------- practice
\* for (const card of bucket) result.add(card);
AddAll(h, result, bucket) ==
    IF bucket = 0 THEN h ELSE [h EXCEPT !.sets[result] = @ \cup h.sets[bucket]]

\* faulty variant of practice: returns the bucket's own Set object
practiceReturnsBucket(h, arr, day) ==
    LET bucket == ArrayAt(h.arrays[arr], day)
        n == NewSet(h)
    IN  IF bucket # 0 THEN [heap |-> h, ret |-> bucket] ELSE n

\* faulty variant of practice: the classical Leitner rule, every bucket
\* whose number divides the day
practiceDivides(h, arr, day) ==
    LET n == NewSet(h)
        result == n.ret
        due == {i \in 1..(Len(h.arrays[arr]) - 1) : day % i = 0}
               \cup (IF day = 0 THEN {0} ELSE {})
        all == UNION {IF ArrayAt(h.arrays[arr], i) = 0 THEN {}
                      ELSE h.sets[ArrayAt(h.arrays[arr], i)] : i \in due}
    IN  [heap |-> [n.heap EXCEPT !.sets[result] = all], ret |-> result]

\* practice(buckets, day): the store after the call and the returned Set
practice(h, arr, day) ==
    LET n == NewSet(h)
        result == n.ret
    IN  IF day = 0
        THEN [heap |-> AddAll(n.heap, result, ArrayAt(h.arrays[arr], 0)),
              ret |-> result]
        ELSE IF day < Len(h.arrays[arr])
        THEN [heap |-> AddAll(n.heap, result, ArrayAt(h.arrays[arr], day)),
              ret |-> result]
        ELSE [heap |-> n.heap, ret |-> result]

\* -------------------------------------------------------- computeProgress
\* a += b on numbers as JavaScript computes it (undefined and NaN give NaN)
AddNumber(a, b) ==
    IF a \in {Undefined, NaN} \/ b \in {Undefined, NaN} THEN NaN ELSE a + b

\* the inner scan: the bucket number of the first entry (in insertion order)
\* whose set has the card; nothing is added (0) when no entry has it
BucketNumberOf(h, m, card) ==
    IF FindBucket(h, m, card) = 0 THEN 0 ELSE h.maps[m][FindBucket(h, m, card)].k

\* for (const card of cardSet): totalBucketSum grows by the card's bucket number
RECURSIVE SumCards(_, _, _, _)
SumCards(h, m, cards, acc) ==
    IF cards = {}
    THEN acc
    ELSE LET card == CHOOSE c \in cards : TRUE
         IN  SumCards(h, m, cards \ {card}, AddNumber(acc, BucketNumberOf(h, m, card)))

\* for (const cardSet of buckets.values()): totalCards and totalBucketSum
\* from entry i on
RECURSIVE CountCards(_, _, _, _)
CountCards(h, m, i, acc) ==
    IF i > Len(h.maps[m])
    THEN acc
    ELSE CountCards(h, m, i + 1,
             [totalCards |-> acc.totalCards + Cardinality(h.sets[h.maps[m][i].v]),
              totalBucketSum |-> SumCards(h, m, h.sets[h.maps[m][i].v],
                                          acc.totalBucketSum)])

\* faulty variant of IsMastered: bucket 1 counted as mastered
IsMasteredFromOne(bucketNum) == bucketNum \notin {Undefined, NaN} /\ bucketNum >= 1

\* bucketNum >= 2 (false for undefined and NaN)
IsMastered(bucketNum) == bucketNum \notin {Undefined, NaN} /\ bucketNum >= 2

\* for (const [bucketNum, cardSet] of buckets.entries())
\*     if (bucketNum >= 2) masteredCards += cardSet.size;
RECURSIVE CountMastered(_, _, _, _)
CountMastered(h, m, i, acc) ==
    IF i > Len(h.maps[m])
    THEN acc
    ELSE CountMastered(h, m, i + 1,
             IF IsMastered(h.maps[m][i].k)
             THEN acc + Cardinality(h.sets[h.maps[m][i].v])
             ELSE acc)

\* buckets.get(0)?.size || 0
StrugglingCards(h, m) ==
    IF MapHas(h.maps[m], 0) THEN Cardinality(h.sets[MapGet(h.maps[m], 0)]) ELSE 0

RECURSIVE Gcd(_, _)
Gcd(a, b) == IF b = 0 THEN a ELSE Gcd(b, a % b)

\* a number as a fraction in lowest terms; NaN is [num |-> NaN, den |-> 1]
\* and Infinity is [num |-> 1, den |-> 0]
Zero == [num |-> 0, den |-> 1]

\* a / b on numbers: 0 / 0 and NaN / b are NaN, a / 0 is Infinity
Divide(a, b) ==
    IF a \in {Undefined, NaN} \/ (a = 0 /\ b = 0) THEN [num |-> NaN, den |-> 1]
    ELSE IF b = 0 THEN [num |-> 1, den |-> 0]
    ELSE [num |-> a \div Gcd(a, b), den |-> b \div Gcd(a, b)]

\* faulty variant of Average: the division without the totalCards > 0 guard
AverageUnguarded(totalBucketSum, totalCards) == Divide(totalBucketSum, totalCards)

\* totalCards > 0 ? totalBucketSum / totalCards : 0
Average(totalBucketSum, totalCards) ==
    IF totalCards > 0 THEN Divide(totalBucketSum, totalCards) ELSE Zero

\* computeProgress(buckets, history): the returned statistics; history is
\* never read
computeProgress(h, bucketsRef) ==
    LET t == CountCards(h, bucketsRef, 1, [totalCards |-> 0, totalBucketSum |-> 0])
    IN  [totalCards |-> t.totalCards,
         masteredCards |-> CountMastered(h, bucketsRef, 1, 0),
         strugglingCards |-> StrugglingCards(h, bucketsRef),
         averageBucket |-> Average(t.totalBucketSum, t.totalCards)]

NoProgress ==
    [totalCards |-> 0, masteredCards |-> 0, strugglingCards |-> 0,
     averageBucket |-> Zero]

\* ------------------------------------------------------------ call record
NoCall ==
    [op |-> "none", arg |-> 0, card |-> NoCard, difficulty |-> NoDifficulty,
     day |-> 0, ret |-> 0, threw |-> FALSE, range |-> NoRange,
     progress |-> NoProgress]

\* ---------------------------------------------------------------- initial
\* the caller's bucket map: any insertion order of distinct bucket numbers
\* 0..MaxKey, each card in at most one bucket (sets may be empty)
KeySeqs ==
    {ks \in UNION {[1..n -> 0..MaxKey] : n \in 0..(MaxKey + 1)} :
        \A i, j \in 1..Len(ks) : ks[i] = ks[j] => i = j}

Placements(ks) ==
    {pl \in [Cards -> (0..MaxKey) \cup {-1}] :
        \A c \in Cards : pl[c] = -1 \/ \E i \in 1..Len(ks) : ks[i] = pl[c]}

InitHeap(ks, pl) ==
    [sets   |-> [i \in 1..Len(ks) |-> {c \in Cards : pl[c] = ks[i]}],
     maps   |-> << [i \in 1..Len(ks) |-> [k |-> ks[i], v |-> i]] >>,
     arrays |-> << >>]

Init ==
    /\ \E ks \in KeySeqs : \E pl \in Placements(ks) : heap = InitHeap(ks, pl)
    /\ pre = heap
    /\ buckets = 1
    /\ dense = 0
    /\ call = NoCall
    /\ nops = 0
    /\ updated = {}

\* ---------------------------------------------------------------- actions
\* one call of update on the caller's current map; the caller goes on with
\* the returned map
Update(card, difficulty) ==
    /\ nops < MaxUpdates
    /\ LET r == update(heap, buckets, card, difficulty)
       IN  /\ heap' = r.heap
           /\ buckets' = r.ret
           /\ call' = [NoCall EXCEPT !.op = "update", !.arg = buckets,
                                     !.card = card, !.difficulty = difficulty,
                                     !.ret = r.ret, !.threw = r.threw]
    /\ pre' = heap
    /\ nops' = nops + 1
    /\ updated' = updated \cup {card}
    /\ UNCHANGED dense

\* the caller converts its map to the dense form
ToBucketSets ==
    /\ dense = 0
    /\ LET r == toBucketSets(heap, buckets)
       IN  /\ heap' = r.heap
           /\ dense' = r.ret
           /\ call' = [NoCall EXCEPT !.op = "toBucketSets", !.arg = buckets,
                                     !.ret = r.ret]
    /\ pre' = heap
    /\ UNCHANGED <<buckets, nops, updated>>

GetBucketRange ==
    /\ dense # 0
    /\ nops < MaxQueries
    /\ call' = [NoCall EXCEPT !.op = "getBucketRange", !.arg = dense,
                              !.range = getBucketRange(heap, dense)]
    /\ pre' = heap
    /\ nops' = nops + 1
    /\ UNCHANGED <<heap, buckets, dense, updated>>

Practice(day) ==
    /\ dense # 0
    /\ nops < MaxQueries
    /\ LET r == practice(heap, dense, day)
       IN  /\ heap' = r.heap
           /\ call' = [NoCall EXCEPT !.op = "practice", !.arg = dense,
                                     !.day = day, !.ret = r.ret]
    /\ pre' = heap
    /\ nops' = nops + 1
    /\ UNCHANGED <<buckets, dense, updated>>

\* the caller adds a card to, or deletes a card from, the set that practice
\* returned
MutateResult(card, add) ==
    /\ call.op \in {"practice", "mutate"}
    /\ nops < MaxQueries
    /\ heap' = [heap EXCEPT !.sets[call.ret] =
                    IF add THEN @ \cup {card} ELSE @ \ {card}]
    /\ call' = [call EXCEPT !.op = "mutate", !.card = card]
    /\ pre' = heap
    /\ nops' = nops + 1
    /\ UNCHANGED <<buckets, dense, updated>>

NextDense ==
    \/ ToBucketSets
    \/ GetBucketRange
    \/ \E day \in 0..MaxDay : Practice(day)
    \/ \E card \in Cards, add \in BOOLEAN : MutateResult(card, add)

SpecDense == Init /\ [][NextDense]_vars

Next == \E card \in Cards, difficulty \in Difficulties : Update(card, difficulty)

Spec == Init /\ [][Next]_vars

\* the caller asks for the statistics of its current map
ComputeProgress ==
    /\ call' = [NoCall EXCEPT !.op = "computeProgress", !.arg = buckets,
                              !.progress = computeProgress(heap, buckets)]
    /\ pre' = heap
    /\ UNCHANGED <<heap, buckets, dense, nops, updated>>

NextProgress == Next \/ ComputeProgress

SpecProgress == Init /\ [][NextProgress]_vars

\* ------------------------------------------------------------- properties
\* the bucket numbers of map m under which the card is filed
BucketsOf(h, m, card) ==
    {h.maps[m][i].k : i \in {j \in 1..Len(h.maps[m]) : card \in h.sets[h.maps[m][j].v]}}

\* the Set objects a map's entries refer to
SetRefs(h, m) == {h.maps[m][i].v : i \in 1..Len(h.maps[m])}

\* the bucket numbers of map m that hold at least one card
Occupied(h, m) ==
    {h.maps[m][i].k : i \in {j \in 1..Len(h.maps[m]) : h.sets[h.maps[m][j].v] # {}}}

KeysOf(h, m) == {h.maps[m][i].k : i \in 1..Len(h.maps[m])}

SetMin(S) == CHOOSE x \in S : \A y \in S : x <= y
SetMax(S) == CHOOSE x \in S : \A y \in S : y <= x

\* C1: update leaves its input untouched: the input Map has the entries it
\* had before the call, every Set it refers to has the members it had, and
\* the result is another Map whose Sets are none of the input's Sets.
C1_UpdateLeavesInputUnchanged ==
    call.op = "update" =>
        /\ heap.maps[call.arg] = pre.maps[call.arg]
        /\ \A r \in SetRefs(pre, call.arg) : heap.sets[r] = pre.sets[r]
        /\ call.ret # call.arg
        /\ SetRefs(heap, call.ret) \cap SetRefs(pre, call.arg) = {}

\* an update that moved a filed card out of bucket 1 into bucket 0
C1_Witness ==
    /\ call.op = "update"
    /\ call.difficulty = Wrong
    /\ BucketsOf(pre, call.arg, call.card) = {1}
    /\ BucketsOf(heap, call.ret, call.card) = {0}

\* C2: after update(S, card, Wrong) the card is in bucket 0 of the result and
\* in no other bucket.
C2_WrongResets ==
    (call.op = "update" /\ call.difficulty = Wrong) =>
        BucketsOf(heap, call.ret, call.card) = {0}

\* Wrong on a card that was in bucket 2
C2_Witness ==
    /\ call.op = "update"
    /\ call.difficulty = Wrong
    /\ BucketsOf(pre, call.arg, call.card) = {2}

\* C3: after update(S, card, Easy) a card that was in bucket current of S is
\* in bucket current + 1 only (so no longer in current), and a card in no
\* bucket of S is in bucket 0 only (not bucket 1).
C3_EasyPromotes ==
    (call.op = "update" /\ call.difficulty = Easy) =>
        IF BucketsOf(pre, call.arg, call.card) = {}
        THEN BucketsOf(heap, call.ret, call.card) = {0}
        ELSE \A current \in BucketsOf(pre, call.arg, call.card) :
                 current >= 0 => BucketsOf(heap, call.ret, call.card) = {current + 1}

\* Easy on a card of the highest bucket of S, while the other card is in no
\* bucket at all
C3_Witness ==
    /\ call.op = "update"
    /\ call.difficulty = Easy
    /\ BucketsOf(pre, call.arg, call.card) = {MaxKey}
    /\ \E c \in Cards : BucketsOf(heap, call.ret, c) = {}

\* C4: after update(S, card, Hard) a card that was in a bucket of S is in the
\* same bucket number, and a card in no bucket of S is in bucket 0.
C4_HardKeeps ==
    (call.op = "update" /\ call.difficulty = Hard) =>
        IF BucketsOf(pre, call.arg, call.card) = {}
        THEN BucketsOf(heap, call.ret, call.card) = {0}
        ELSE BucketsOf(heap, call.ret, call.card) = BucketsOf(pre, call.arg, call.card)

\* Hard on a card that was in bucket 1
C4_Witness ==
    /\ call.op = "update"
    /\ call.difficulty = Hard
    /\ BucketsOf(pre, call.arg, call.card) = {1}

\* C5: update with an outcome outside {Wrong, Hard, Easy} fails with an
\* error and returns no collection.
C5_InvalidOutcomeFails ==
    (call.op = "update" /\ call.difficulty \notin ValidDifficulties) =>
        (call.threw /\ call.ret = 0)

\* C6: getBucketRange(toBucketSets(S)) is the smallest and the largest bucket
\* number of S that holds a card, and undefined when no bucket of S holds one.
C6_RangeOfOccupied ==
    call.op = "getBucketRange" =>
        IF Occupied(heap, buckets) = {}
        THEN ~call.range.defined
        ELSE /\ call.range.defined
             /\ call.range.minBucket = SetMin(Occupied(heap, buckets))
             /\ call.range.maxBucket = SetMax(Occupied(heap, buckets))

\* a range over two distinct buckets, below an empty highest bucket
C6_Witness ==
    /\ call.op = "getBucketRange"
    /\ call.range.defined
    /\ call.range.minBucket < call.range.maxBucket
    /\ \E k \in KeysOf(heap, buckets) : k > call.range.maxBucket

\* C7 as stated: the length of toBucketSets(S) is the largest bucket number
\* that holds a card, plus one, and 0 when no bucket holds a card.
C7_LengthIsMaxOccupiedPlusOne ==
    call.op = "toBucketSets" =>
        Len(heap.arrays[call.ret]) =
            IF Occupied(pre, call.arg) = {} THEN 0
            ELSE SetMax(Occupied(pre, call.arg)) + 1

\* C7 amended: the length of toBucketSets(S) is the largest key of S plus
\* one, whether or not that bucket holds a card, and 0 when S has no keys.
C7_LengthIsMaxKeyPlusOne ==
    call.op = "toBucketSets" =>
        Len(heap.arrays[call.ret]) =
            IF KeysOf(pre, call.arg) = {} THEN 0
            ELSE SetMax(KeysOf(pre, call.arg)) + 1

\* a conversion of a map whose highest bucket is empty while a lower one
\* holds a card
C7_Witness ==
    /\ call.op = "toBucketSets"
    /\ Occupied(pre, call.arg) # {}
    /\ SetMax(KeysOf(pre, call.arg)) > SetMax(Occupied(pre, call.arg))
    /\ Len(heap.arrays[call.ret]) = SetMax(KeysOf(pre, call.arg)) + 1

\* C8: every key of S is an index of toBucketSets(S); the entry at an index
\* that is a key of S has exactly the members of S's set for that key, and
\* the entry at any other index is an empty set.
C8_DenseMatchesSparse ==
    call.op = "toBucketSets" =>
        LET arr == heap.arrays[call.ret]
            m == pre.maps[call.arg]
        IN  /\ \A k \in KeysOf(pre, call.arg) : k < Len(arr)
            /\ \A i \in 0..(Len(arr) - 1) :
                   /\ ArrayAt(arr, i) # 0
                   /\ heap.sets[ArrayAt(arr, i)] =
                          IF MapHas(m, i) THEN pre.sets[MapGet(m, i)] ELSE {}

\* a conversion of a map whose keys were inserted out of order, with a gap,
\* both buckets holding a card
C8_Witness ==
    /\ call.op = "toBucketSets"
    /\ Len(pre.maps[call.arg]) = 2
    /\ pre.maps[call.arg][1].k = 2
    /\ pre.maps[call.arg][2].k = 0
    /\ Occupied(pre, call.arg) = {0, 2}

C10_PracticeResultIsFresh ==
    call.op \in {"practice", "mutate"} =>
        /\ heap.arrays[dense] = pre.arrays[dense]
        /\ \A i \in 1..Len(heap.arrays[dense]) :
               /\ heap.arrays[dense][i] # call.ret
               /\ heap.sets[heap.arrays[dense][i]] = pre.sets[heap.arrays[dense][i]]
        /\ call.op = "practice" => call.ret > Len(pre.sets)

\* the caller deleted a card from the set practice returned for a day whose
\* bucket holds that card
C10_Witness ==
    /\ call.op = "mutate"
    /\ call.day < Len(heap.arrays[dense])
    /\ call.card \in heap.sets[heap.arrays[dense][call.day + 1]]
    /\ call.card \notin heap.sets[call.ret]

\* the cards filed in some bucket of map m
Filed(h, m) == {c \in Cards : BucketsOf(h, m, c) # {}}

\* the sum, over the given cards, of the bucket number each is filed under
RECURSIVE SumOfBucketNumbers(_, _, _)
SumOfBucketNumbers(h, m, cards) ==
    IF cards = {}
    THEN 0
    ELSE LET c == CHOOSE x \in cards : TRUE
         IN  SetMax(BucketsOf(h, m, c)) + SumOfBucketNumbers(h, m, cards \ {c})

\* C11: computeProgress counts as mastered exactly the cards whose bucket
\* number is 2 or more; cards of buckets 0 and 1 are never counted.
C11_MasteredIffBucketAtLeastTwo ==
    call.op = "computeProgress" =>
        call.progress.masteredCards =
            Cardinality({c \in Cards : \E k \in BucketsOf(heap, call.arg, c) : k >= 2})

\* statistics of a map with one card in bucket 1 and the other in a bucket
\* numbered 2 or more
C11_Witness ==
    /\ call.op = "computeProgress"
    /\ call.progress.masteredCards = 1
    /\ \E c \in Cards : BucketsOf(heap, call.arg, c) = {1}
    /\ \E c \in Cards : \E k \in BucketsOf(heap, call.arg, c) : k >= 2

\* C12: for a map with non-negative bucket numbers, totalCards is the number
\* of cards filed (the sum of the set sizes, each card being in one bucket),
\* and averageBucket is (the sum of the cards' bucket numbers) / totalCards
\* when totalCards > 0 and exactly 0 when totalCards = 0.
C12_TotalAndAverage ==
    (call.op = "computeProgress" /\ \A k \in KeysOf(heap, call.arg) : k >= 0) =>
        /\ call.progress.totalCards = Cardinality(Filed(heap, call.arg))
        /\ IF call.progress.totalCards > 0
           THEN /\ call.progress.averageBucket.den > 0
                /\ call.progress.averageBucket.num * call.progress.totalCards =
                       call.progress.averageBucket.den *
                           SumOfBucketNumbers(heap, call.arg, Filed(heap, call.arg))
           ELSE call.progress.averageBucket = Zero

\* statistics of a map with two cards whose average bucket is 3/2
C12_Witness ==
    /\ call.op = "computeProgress"
    /\ \A k \in KeysOf(heap, call.arg) : k >= 0
    /\ call.progress.totalCards = 2
    /\ call.progress.averageBucket = [num |-> 3, den |-> 2]

\* statistics of a map that has keys but no card
C12_WitnessEmptySets ==
    /\ call.op = "computeProgress"
    /\ KeysOf(heap, call.arg) # {}
    /\ call.progress.totalCards = 0
    /\ call.progress.averageBucket = Zero

\* the entries of map m whose set has the card
EntriesWith(h, m, card) == {i \in 1..Len(h.maps[m]) : card \in h.sets[h.maps[m][i].v]}

\* C13: in the caller's map, after any number of update calls, every card is
\* in at most one bucket and every card update was called with is in exactly
\* one bucket.
C13_OneBucketPerCard ==
    /\ \A c \in Cards : Cardinality(EntriesWith(heap, buckets, c)) <= 1
    /\ \A c \in updated : Cardinality(EntriesWith(heap, buckets, c)) = 1

\* two updates with outcomes of the enum, one per card, the second moving
\* its card out of the bucket it was filed in
C13_Witness ==
    /\ updated = Cards
    /\ call.op = "update"
    /\ call.difficulty \in ValidDifficulties
    /\ \A k \in KeysOf(heap, buckets) : k >= 0
    /\ BucketsOf(pre, call.arg, call.card) # {}
    /\ BucketsOf(pre, call.arg, call.card) # BucketsOf(heap, buckets, call.card)

\* C14: update changes the placement of its card only: every key of the
\* input is a key of the result, every other card is under the bucket
\* number it was under, and the cards of the result are the cards of the
\* input and the card.
C14_UpdateMovesOnlyTheCard ==
    call.op = "update" =>
        /\ KeysOf(pre, call.arg) \subseteq KeysOf(heap, call.ret)
        /\ \A c \in Cards \ {call.card} :
               BucketsOf(heap, call.ret, c) = BucketsOf(pre, call.arg, c)
        /\ Filed(heap, call.ret) = Filed(pre, call.arg) \cup {call.card}

\* an update that moved its card out of a bucket it was alone in, which
\* stays in the result as an empty bucket, while the other card is filed
C14_Witness ==
    /\ call.op = "update"
    /\ \E k \in BucketsOf(pre, call.arg, call.card) :
           /\ k \notin BucketsOf(heap, call.ret, call.card)
           /\ k \in KeysOf(heap, call.ret)
           /\ k \notin Occupied(heap, call.ret)
    /\ \E c \in Cards \ {call.card} : BucketsOf(heap, call.ret, c) # {}

====
